---------------------------- MODULE Spec2Model ----------------------------
(***************************************************************************)
(* A model of the ModuleContextStreaming gateway                           *)
(* (src/ModuleContextStreaming/server.py): the construction of the tool    *)
(* registry from native tools and MCP backends, the two RPC handlers of    *)
(* ModuleContextServicer running on the worker threads of the gRPC server, *)
(* the generated tool functions of MCPToolAdapter, and the shutdown path;  *)
(* the tools of examples/simple_server.py; the client of client.py.        *)
(***************************************************************************)
EXTENDS Integers, Sequences, FiniteSets, TLC

(***************************************************************************)
(* Bounds of the model.                                                    *)
(***************************************************************************)
\* the longest mcp_backends list Server.__init__ is given
MaxBackends == 3
\* the most items one native tool source yields before it ends or raises
MaxItems == 3
\* the most content items in one remote CallToolResult
MaxContent == 2
\* the same, in the runs with two worker threads
MaxContentConcurrent == 1

(***************************************************************************)
(* The small universes the inputs are drawn from.                          *)
(***************************************************************************)
\* "no value": Python's None, an absent dict key
None == "<None>"

\* worker threads of the ThreadPoolExecutor that serve calls
Threads == {"w1", "w2"}

\* falsy values of Python's `or` / `if not` among the values modelled
Falsy(v) == v \in {None, ""}

\* tools an MCP server may list; tool_def.description of each (None: none given)
RemoteToolNames == {"x", "b:x"}

RemoteDescription(t) == IF t = "x" THEN "does x" ELSE None

\* how far MCPToolAdapter.connect gets before it raises ("ok": it does not)
ConnectOutcomes == {"ok", "aenter_fails", "initialize_fails", "list_tools_fails"}

\* entries of an mcp_backends list: the config dict (name / command present or
\* absent) and, as the environment, the tools the backend's server lists and the
\* ways its connect may go
BackendConfigs ==
    { [name |-> "a",   command |-> TRUE,  server_tools |-> {"x", "b:x"}, connect |-> ConnectOutcomes],
      [name |-> "a:b", command |-> TRUE,  server_tools |-> {"x"}, connect |-> ConnectOutcomes],
      [name |-> None,  command |-> TRUE,  server_tools |-> {"x"}, connect |-> ConnectOutcomes],
      [name |-> "a",   command |-> FALSE, server_tools |-> {"x"}, connect |-> ConnectOutcomes],
      [name |-> "a",   command |-> TRUE,  server_tools |-> {}, connect |-> ConnectOutcomes] }

\* a native tool function as the registry holds it
NativeTool(fn, doc) ==
    [kind |-> "native", fn |-> fn, adapter |-> 0, name |-> None,
     backend_name |-> None, doc |-> doc]

\* the tool_registry arguments of Server.__init__ that the startup runs try
NativeRegistries ==
    { [n \in S |-> NativeTool("tool_stub", "stub " \o n)] : S \in SUBSET {"x", "a:b:x"} }

\* the registry of tests/conftest.py
MockToolRegistry ==
    [n \in {"text_tool", "bytes_tool"} |->
        IF n = "text_tool"
        THEN NativeTool("tool_text_responder", "A simple tool that yields text.")
        ELSE NativeTool("tool_bytes_responder", "A simple tool that yields bytes.")]

\* the same with a stub tool of arbitrary behaviour and no docstring
ServingRegistry ==
    [n \in DOMAIN MockToolRegistry \cup {"stub_tool"} |->
        IF n = "stub_tool" THEN NativeTool("tool_stub", None) ELSE MockToolRegistry[n]]

\* the registry of examples/simple_server.py (TOOL_REGISTRY, lines 127-132); of
\* each docstring, its first sentence
ExampleToolRegistry ==
    [n \in {"file_reader", "web_search", "image_fetcher", "render_html"} |->
        CASE n = "file_reader" ->
                NativeTool("tool_file_reader",
                           "Reads a file from the local filesystem and streams its content line by line.")
          [] n = "web_search" ->
                NativeTool("tool_web_search",
                           "Performs a web search using the DuckDuckGo API and streams the results.")
          [] n = "image_fetcher" ->
                NativeTool("tool_image_fetcher",
                           "Fetches an image from a URL and yields its binary content.")
          [] OTHER ->
                NativeTool("tool_render_html",
                           "Receives an HTML string from the client and prints it to the server console.")]

\* MessageToDict(request.arguments) with at most one key: the key (None: the
\* empty dict) and its value (None: a JSON null)
Arguments(key, value) == [key |-> key, value |-> value]

NoArguments == Arguments(None, None)

\* arguments.get(key, default)
Get(arguments, key, default) ==
    IF arguments.key = key THEN arguments.value ELSE default

\* the argument dicts the callers of the example server send
ExampleArguments ==
    {NoArguments}
      \cup { Arguments("path", v) :
                v \in {None, "", "notes.txt", "missing.txt", "latin1.txt", "docs"} }
      \cup { Arguments("query", v) : v \in {None, "", "grpc"} }
      \cup { Arguments("url", v) : v \in {None, "", "http://h/i.png"} }
      \cup { Arguments("html_string", v) : v \in {None, "", "<p>hi</p>"} }

\* session.call_tool(name, arguments) as a remote tool function issues it
NoRemoteCall == [name |-> None, arguments |-> NoArguments, adapter |-> 0]

NoResult == [state |-> "none", content |-> <<>>, structured |-> FALSE,
             isError |-> FALSE, msg |-> None]

NoTool == [kind |-> "none", fn |-> None, adapter |-> 0, name |-> None,
           backend_name |-> None, doc |-> None]

\* a worker thread with no call
NoCall ==
    [pc |-> "idle", rpc |-> None, token |-> None, tool_name |-> None,
     arguments |-> NoArguments, \* MessageToDict(request.arguments)
     effects |-> {},          \* history: what the tool did outside the process
     remote_call |-> NoRemoteCall, \* history: the session.call_tool issued
     handler_ran |-> FALSE,   \* history: the servicer method was entered
     lookups |-> 0,           \* history: reads of the registry
     invoked |-> 0,           \* history: calls of a tool function
     tool |-> NoTool,         \* tool_function of CallTool
     sequence_id |-> 0,       \* sequence_id of CallTool
     chunks |-> <<>>,         \* what the call yielded to the transport
     produced |-> <<>>,       \* history: the items the tool source yielded
     fault |-> None,          \* history: the message of the fault the source raised
     status |-> None,         \* how the RPC ended
     response |-> {},         \* ListToolsResult.tools
     gen_pc |-> "none",       \* where the remote tool_function is
     issued |-> FALSE,        \* history: session.call_tool was issued
     after_fault |-> FALSE,   \* history: a call of a remote tool that follows, on
                              \* this thread, one whose session.call_tool raised
     cancelled |-> FALSE,     \* the caller cancelled the call or disconnected
     cancelled_after |-> 0,   \* history: chunks emitted when it did
     result |-> NoResult]     \* result of the remote tool_function

\* no client process
NoClient ==
    [pc |-> "none", settings |-> {}, http |-> None, json_error |-> FALSE,
     certificate |-> FALSE, token_call |-> "not called", jwt_token |-> None,
     raised |-> None, rpcs |-> <<>>]

\* all sequences over S of length at most n
SeqUpTo(S, n) == UNION { [1..k -> S] : k \in 0..n }

VARIABLES
    MCP_AVAILABLE,   \* server.py:18-24, whether the mcp import succeeded
    mcp_backends,    \* the mcp_backends argument of Server.__init__
    tool_registry,   \* Server.tool_registry: name -> tool function
    adapters,        \* every MCPToolAdapter object created, in creation order
    mcp_adapters,    \* Server.mcp_adapters: indices into adapters
    phase,           \* where the main thread is: __init__, run, _cleanup
    backend_i,       \* loop index of _initialize_mcp_backends / _cleanup
    calls,           \* per worker thread, the call it is serving
    env,             \* the run's environment: the pool's threads, the threads
                     \* whose callers may cancel, the arguments callers send,
                     \* the results' content and size
    registry_arg,    \* history: the tool_registry argument of Server.__init__
    outcomes,        \* history: per backend tried, how its initialization went
    client           \* the client process of client.py: where run() is, its locals

\* the server's variables
server_vars == <<MCP_AVAILABLE, mcp_backends, tool_registry, adapters, mcp_adapters,
                 phase, backend_i, calls, env, registry_arg, outcomes>>

vars == <<server_vars, client>>

(***************************************************************************)
(* MCPToolAdapter                                                          *)
(***************************************************************************)
\* MCPToolAdapter.__init__
NewAdapter(name, server_tools, k) ==
    [name |-> name, server_tools |-> server_tools,
     backend |-> k,              \* history: the position in mcp_backends it was built for
     session |-> FALSE,          \* self.session is not None
     tools_cache |-> <<>>,       \* tool name -> description
     context |-> "none",         \* self._context: none / created / entered / exited
     loop |-> FALSE,             \* self._loop is not None
     running |-> {},             \* threads inside self._loop.run_until_complete
     close_attempts |-> 0]

\* MCPToolAdapter.connect: the adapter as connect leaves it
Connect(a, outcome) ==
    CASE outcome = "aenter_fails" ->
            [a EXCEPT !.context = "created"]
      [] outcome \in {"initialize_fails", "list_tools_fails"} ->
            [a EXCEPT !.context = "entered", !.session = TRUE]
      [] OTHER ->
            [a EXCEPT !.context = "entered", !.session = TRUE,
                      !.tools_cache = [t \in a.server_tools |-> RemoteDescription(t)]]

\* prefixed_name = f"{self.name}:{tool_name}"
PrefixedName(backend, tool) == backend \o ":" \o tool

\* make_tool_function: the closure and its __doc__
make_tool_function(ai, name, backend_name, description) ==
    [kind |-> "mcp", fn |-> "tool_function", adapter |-> ai, name |-> name,
     backend_name |-> backend_name,
     doc |-> IF Falsy(description)
             THEN "MCP Tool from '" \o backend_name \o "': " \o name
             ELSE description]

\* MCPToolAdapter.get_mcs_tools of adapters[ai] = a: one closure per tool of
\* tools_cache, each made by make_tool_function with the tool's own name
get_mcs_toolsLateBinding(ai, a) ==
    LET names == { PrefixedName(a.name, t) : t \in DOMAIN a.tools_cache }
        last  == CHOOSE t \in DOMAIN a.tools_cache :
                    \A u \in DOMAIN a.tools_cache : Len(u) <= Len(t)
    IN  [p \in names |-> make_tool_function(ai, last, a.name, a.tools_cache[last])]

get_mcs_tools(ai, a) ==
    LET names == { PrefixedName(a.name, t) : t \in DOMAIN a.tools_cache }
    IN  [p \in names |->
            LET t == CHOOSE t \in DOMAIN a.tools_cache : PrefixedName(a.name, t) = p
            IN  make_tool_function(ai, t, a.name, a.tools_cache[t])]

(***************************************************************************)
(* Server.__init__ and Server._initialize_mcp_backends                     *)
(***************************************************************************)
\* dict.update: entries of new replace those of reg
UpdateKeepingEarlier(reg, new) ==
    [n \in DOMAIN reg \cup DOMAIN new |-> IF n \in DOMAIN reg THEN reg[n] ELSE new[n]]

Update(reg, new) ==
    [n \in DOMAIN reg \cup DOMAIN new |-> IF n \in DOMAIN new THEN new[n] ELSE reg[n]]

\* mcp_config.get("name", "unnamed")
ConfigName(cfg) == IF cfg.name = None THEN "unnamed" ELSE cfg.name

\* the fields as lines 214-221 set them, before any backend is initialized
InitFields(registry, backends, available, environment) ==
    /\ MCP_AVAILABLE = available
    /\ env = environment
    /\ mcp_backends = backends
    /\ tool_registry = registry
    /\ adapters = <<>>
    /\ mcp_adapters = <<>>
    /\ phase = "init"
    /\ backend_i = 1
    /\ calls = [t \in Threads |-> NoCall]
    /\ registry_arg = registry
    /\ outcomes = <<>>
    /\ client = NoClient

\* construction with any registry and any backend list of the universes
InitStartup ==
    \E registry \in NativeRegistries, backends \in SeqUpTo(BackendConfigs, MaxBackends),
       available \in BOOLEAN :
        InitFields(registry, backends, available,
                   [pool |-> {}, cancelling |-> {}, arguments |-> {}, content |-> {},
                    max_content |-> 0])

\* one iteration of the loop of _initialize_mcp_backends (lines 236-258)
InitializeBackendOneTryForAll(cfg, outcome) ==
    LET ai == Len(adapters) + 1
        a  == Connect(NewAdapter(ConfigName(cfg), cfg.server_tools, backend_i), outcome)
    IN  IF ~cfg.command
        THEN /\ backend_i' = Len(mcp_backends) + 1
             /\ outcomes' = Append(outcomes, "no_command")
             /\ UNCHANGED <<adapters, mcp_adapters, tool_registry, phase>>
        ELSE IF outcome # "ok"
        THEN /\ adapters' = Append(adapters, a)
             /\ backend_i' = Len(mcp_backends) + 1
             /\ outcomes' = Append(outcomes, outcome)
             /\ UNCHANGED <<mcp_adapters, tool_registry, phase>>
        ELSE /\ adapters' = Append(adapters, a)
             /\ mcp_adapters' = Append(mcp_adapters, ai)
             /\ tool_registry' = Update(tool_registry, get_mcs_tools(ai, a))
             /\ backend_i' = backend_i + 1
             /\ outcomes' = Append(outcomes, outcome)
             /\ UNCHANGED phase

InitializeBackend(cfg, outcome) ==
    LET ai == Len(adapters) + 1
        a  == Connect(NewAdapter(ConfigName(cfg), cfg.server_tools, backend_i), outcome)
    IN  IF ~cfg.command
        THEN \* mcp_config["command"] raises KeyError before the adapter exists;
             \* caught at line 256, the loop goes on
             /\ backend_i' = backend_i + 1
             /\ outcomes' = Append(outcomes, "no_command")
             /\ UNCHANGED <<adapters, mcp_adapters, tool_registry, phase>>
        ELSE IF outcome # "ok"
        THEN \* connect re-raised (line 65): caught at line 256, the adapter is
             \* neither appended nor merged, the loop goes on
             /\ adapters' = Append(adapters, a)
             /\ backend_i' = backend_i + 1
             /\ outcomes' = Append(outcomes, outcome)
             /\ UNCHANGED <<mcp_adapters, tool_registry, phase>>
        ELSE /\ adapters' = Append(adapters, a)
             /\ mcp_adapters' = Append(mcp_adapters, ai)
             /\ tool_registry' = Update(tool_registry, get_mcs_tools(ai, a))
             /\ backend_i' = backend_i + 1
             /\ outcomes' = Append(outcomes, outcome)
             /\ UNCHANGED phase

InitBackendStep ==
    /\ phase = "init"
    /\ MCP_AVAILABLE
    /\ backend_i <= Len(mcp_backends)
    /\ \E outcome \in mcp_backends[backend_i].connect :
          InitializeBackend(mcp_backends[backend_i], outcome)
    /\ UNCHANGED <<client, MCP_AVAILABLE, mcp_backends, calls, env, registry_arg>>

\* Server.__init__ returns (lines 224-227, 260)
InitReturns ==
    /\ phase = "init"
    /\ ~MCP_AVAILABLE \/ backend_i > Len(mcp_backends)
    /\ phase' = "constructed"
    /\ UNCHANGED <<client, MCP_AVAILABLE, mcp_backends, tool_registry, adapters, mcp_adapters,
                   backend_i, calls, env, registry_arg, outcomes>>

NextStartup == InitBackendStep \/ InitReturns

SpecStartup == InitStartup /\ [][NextStartup]_vars

(***************************************************************************)
(* Output items, tool sources and chunks                                   *)
(***************************************************************************)
\* what a tool function yields: a str, a bytes or a dict ({value: 1})
TextItem(s)  == [type |-> "str",   value |-> s]

BytesItem(b) == [type |-> "bytes", value |-> b]

DictItem(k)  == [type |-> "dict",  value |-> k]

NoItem == [type |-> "none", value |-> None]

\* one step of a generator: it yields an item, returns, or raises
Yield(item) == [kind |-> "yield", item |-> item, msg |-> None]

Return == [kind |-> "return", item |-> NoItem, msg |-> None]

Raise(msg) == [kind |-> "raise", item |-> NoItem, msg |-> msg]

\* b"\x89PNG\r\n\x1a\n\x00\x00" of tool_bytes_responder, in hex
PngBytes == "89504e470d0a1a0a0000"

\* what the stub tool may yield: a str, a bytes, a dict
StubItems == {TextItem("t"), BytesItem("00ff"), DictItem("k")}

FaultMessages == {"boom"}

\* what a native tool function may do next, having yielded `produced`
NativeNext(fn, produced) ==
    CASE fn = "tool_text_responder" ->
            IF Len(produced) = 0 THEN {Yield(TextItem("Text response 1"))}
            ELSE IF Len(produced) = 1 THEN {Yield(TextItem("Text response 2"))}
            ELSE {Return}
      [] fn = "tool_bytes_responder" ->
            IF Len(produced) = 0 THEN {Yield(BytesItem(PngBytes))} ELSE {Return}
      [] OTHER ->
            {Return} \cup {Raise(m) : m \in FaultMessages}
              \cup (IF Len(produced) < MaxItems THEN {Yield(i) : i \in StubItems} ELSE {})

(***************************************************************************)
(* The tools of examples/simple_server.py                                  *)
(***************************************************************************)
\* the files of the server's working directory ("docs" is a directory)
Files == {"README.md", "notes.txt", "latin1.txt"}

\* their lines, as iterating the open file gives them
FileLines(file_path) ==
    CASE file_path = "README.md" -> << "# MCS\n" >>
      [] file_path = "notes.txt" -> << "  a \n", "\n", "b" >>
      [] OTHER                   -> << "ok\n" >>

\* files whose bytes after those lines are not UTF-8
Undecodable == {"latin1.txt"}

\* str.strip
Strip(line) ==
    CASE line = "# MCS\n" -> "# MCS"
      [] line = "  a \n"  -> "a"
      [] line = "\n"      -> ""
      [] line = "ok\n"    -> "ok"
      [] OTHER            -> line

\* tool_file_reader (lines 11-30): what the generator does next
tool_file_readerRaises(arguments, produced) ==
    LET file_path == Get(arguments, "path", "README.md")
    IN  IF file_path \in Files
        THEN IF Len(produced) < Len(FileLines(file_path))
             THEN {Yield(TextItem("LINE: " \o Strip(FileLines(file_path)[Len(produced) + 1])))}
             ELSE {Return}
        ELSE {Raise("[Errno 2] No such file or directory: '" \o file_path \o "'")}

tool_file_reader(arguments, produced) ==
    LET file_path == Get(arguments, "path", "README.md")
        k == Len(produced)
    IN  CASE file_path = None ->
                \* open(None) raises TypeError, which no except clause names
                {Raise("expected str, bytes or os.PathLike object, not NoneType")}
          [] file_path = "docs" ->
                {Raise("[Errno 21] Is a directory: 'docs'")}
          [] file_path \notin Files \cup {None, "docs"} ->
                IF k = 0
                THEN {Yield(TextItem("ERROR: File not found at '" \o file_path \o "'."))}
                ELSE {Return}
          [] OTHER ->
                IF k < Len(FileLines(file_path))
                THEN {Yield(TextItem("LINE: " \o Strip(FileLines(file_path)[k + 1])))}
                ELSE IF k = Len(FileLines(file_path)) /\ file_path \in Undecodable
                THEN {Yield(TextItem("ERROR: The file at '" \o file_path
                                     \o "' is not valid UTF-8 text."))}
                ELSE {Return}

\* tool_web_search (lines 33-69); what the search service answers is the
\* environment's choice at each step
tool_web_search(arguments, produced) ==
    LET query == Get(arguments, "query", None)
        k == Len(produced)
        last == produced[k].value
    IN  IF Falsy(query)
        THEN IF k = 0
             THEN {Yield(TextItem("ERROR: A 'query' argument is required for web search."))}
             ELSE {Return}
        ELSE IF k = 0
        THEN {Yield(TextItem("Searching the web for: '" \o query \o "'..."))}
        ELSE IF k = 1
        THEN { Yield(TextItem("ERROR: Failed to perform web search. timeout")),
               Yield(TextItem("\nInstant Answer: A")),
               Yield(TextItem("\nRelated Topics:")),
               Yield(TextItem("No direct results found.")),
               Raise("'list' object has no attribute 'get'") }
        ELSE IF last = "\nInstant Answer: A"
        THEN { Yield(TextItem("\nRelated Topics:")),
               Yield(TextItem("No direct results found.")) }
        ELSE IF last \in {"\nRelated Topics:", "- T: U"}
        THEN {Return} \cup (IF k < MaxItems THEN {Yield(TextItem("- T: U"))} ELSE {})
        ELSE {Return}

\* the response.content of the image (8 bytes)
ImageContent == "ffd8ffe000104a46"

\* tool_image_fetcher (lines 72-94)
tool_image_fetcher(arguments, produced) ==
    LET url == Get(arguments, "url", None)
    IN  IF Len(produced) > 0 THEN {Return}
        ELSE IF Falsy(url)
        THEN {Yield(TextItem("ERROR: A 'url' argument is required to fetch an image."))}
        ELSE { Yield(BytesItem(ImageContent)),
               Yield(TextItem("ERROR: Could not fetch image from " \o url \o ". timeout")) }

\* tool_render_html (lines 97-117)
tool_render_htmlUnchecked(arguments, produced) ==
    IF Len(produced) > 0 THEN {Return}
    ELSE {Yield(TextItem("SUCCESS: HTML content received and printed to server console."))}

tool_render_html(arguments, produced) ==
    LET html_content == Get(arguments, "html_string", None)
    IN  IF Len(produced) > 0 THEN {Return}
        ELSE IF Falsy(html_content)
        THEN {Yield(TextItem("ERROR: 'html_string' argument is required."))}
        ELSE {Yield(TextItem("SUCCESS: HTML content received and printed to server console."))}

\* what the step a tool function is about to take does outside the process,
\* having yielded `produced`: open, requests.get, print to the console
Effects(fn, arguments, produced) ==
    CASE fn = "tool_file_reader" ->
            IF produced = <<>> /\ Get(arguments, "path", "README.md") # None
            THEN {"open"} ELSE {}
      [] fn = "tool_web_search" ->
            IF Len(produced) = 1 /\ ~Falsy(Get(arguments, "query", None))
            THEN {"requests.get"} ELSE {}
      [] fn = "tool_image_fetcher" ->
            IF produced = <<>> /\ ~Falsy(Get(arguments, "url", None))
            THEN {"requests.get"} ELSE {}
      [] fn = "tool_render_html" ->
            IF produced = <<>> /\ ~Falsy(Get(arguments, "html_string", None))
            THEN {"print"} ELSE {}
      [] OTHER -> {}

\* json.dumps({k: 1}, indent=2)
JsonDumps(k) == "{\n  \"" \o k \o "\": 1\n}"

TextChunk(sequence_id, text) ==
    [sequence_id |-> sequence_id, content_block |-> "text", text |-> text,
     data |-> None, mime_type |-> None]

ImageChunk(sequence_id, data, mime_type) ==
    [sequence_id |-> sequence_id, content_block |-> "image", text |-> None,
     data |-> data, mime_type |-> mime_type]

\* the chunk CallTool builds for one item (lines 171-183)
EncodeChunk(sequence_id, item) ==
    IF item.type = "bytes" THEN ImageChunk(sequence_id, item.value, "image/jpeg")
    ELSE IF item.type = "dict" THEN TextChunk(sequence_id, JsonDumps(item.value))
    ELSE TextChunk(sequence_id, item.value)

\* the chunk of the except branch of CallTool (lines 189-192)
ErrorChunkWithoutMessage(sequence_id, msg) == TextChunk(sequence_id, "[Error]")

ErrorChunk(sequence_id, msg) == TextChunk(sequence_id, "[Error: " \o msg \o "]")

\* sequence_id += 1 (line 184)
NextSequenceIdRepeats(sequence_id) == sequence_id

\* one counter for all calls, a module-level sequence_id
NextSequenceIdShared(sequence_id) ==
    LET RECURSIVE Emitted(_)
        Emitted(T) == IF T = {} THEN 0
                      ELSE LET t == CHOOSE x \in T : TRUE
                           IN  Len(calls[t].chunks) + Emitted(T \ {t})
    IN  Emitted({ t \in Threads : calls[t].pc # "done" })

NextSequenceId(sequence_id) == sequence_id + 1

(***************************************************************************)
(* The remote tool function (MCPToolAdapter.get_mcs_tools.tool_function)   *)
(***************************************************************************)
\* content.resource of a content item that is not an embedded resource
NoResource == [uri |-> None, text |-> None, blob |-> None]

\* content items of a CallToolResult: text, or image with base64 data (the last
\* one is not valid base64)
ContentItems == { [type |-> "text", payload |-> "hello", resource |-> NoResource],
                  [type |-> "image", payload |-> "AP8=", resource |-> NoResource],
                  [type |-> "image", payload |-> "AP8", resource |-> NoResource] }

\* the content items of the runs with two worker threads
ContentItemsConcurrent == { [type |-> "text", payload |-> "hello", resource |-> NoResource] }

\* an embedded resource: TextResourceContents has the attribute text,
\* BlobResourceContents has blob, a None field is an attribute the object lacks
Resource(uri, text, blob) ==
    [type |-> "resource", payload |-> None,
     resource |-> [uri |-> uri, text |-> text, blob |-> blob]]

\* content items of every type a CallToolResult can carry: text, image, an
\* embedded resource with text, with a blob or with neither, and audio
ContentItemsAnyType ==
    { [type |-> "text", payload |-> "hello", resource |-> NoResource],
      [type |-> "image", payload |-> "AP8=", resource |-> NoResource],
      Resource("file:///a", "body", None),
      Resource("file:///b", None, "AQI="),
      Resource("file:///c", None, None),
      [type |-> "audio", payload |-> "AP8=", resource |-> NoResource] }

\* base64.b64decode: the bytes, or None where it raises binascii.Error
B64Decode(data) ==
    IF data = "AP8=" THEN "00ff" ELSE IF data = "AQI=" THEN "0102" ELSE None

\* the message of that binascii.Error
B64Error == "Incorrect padding"

\* session.call_tool raised, or run_until_complete did
Raised(msg) == [state |-> "raised", content |-> <<>>, structured |-> FALSE,
                isError |-> FALSE, msg |-> msg]

\* what session.call_tool may return, with at most n content items
Results(n) ==
    { [state |-> "ok", content |-> c, structured |-> s, isError |-> e, msg |-> None] :
        c \in SeqUpTo(env.content, n), s \in BOOLEAN, e \in BOOLEAN }

RemoteFaults == {"connection lost"}

\* hasattr(content.resource, attr) (lines 100, 102)
HasAttr(resource, attr) == resource[attr] # None

\* the item one content item is translated to (lines 92-104), NoItem where no
\* branch yields: a resource with neither text nor blob, and any other type
ContentToItem(content) ==
    IF content.type = "text" THEN TextItem(content.payload)
    ELSE IF content.type = "image" THEN BytesItem(B64Decode(content.payload))
    ELSE IF content.type = "resource"
    THEN IF HasAttr(content.resource, "text")
         THEN TextItem("[Resource: " \o content.resource.uri \o "]\n"
                       \o content.resource.text)
         ELSE IF HasAttr(content.resource, "blob")
         THEN BytesItem(B64Decode(content.resource.blob))
         ELSE NoItem
    ELSE NoItem

\* translating the content item raises (lines 97, 104)
TranslationRaises(content) ==
    \/ content.type = "image" /\ B64Decode(content.payload) = None
    \/ /\ content.type = "resource"
       /\ ~HasAttr(content.resource, "text") /\ HasAttr(content.resource, "blob")
       /\ B64Decode(content.resource.blob) = None

\* the item of the except branch (line 115)
McpErrorItem(msg) == TextItem("[MCP Error: " \o msg \o "]")

\* the item of line 108
StructuredItem == TextItem("\n[Structured Output]\n" \o JsonDumps("s"))

\* the item of line 112
ErrorStateItem == TextItem("\n[Error: Tool execution failed]")

\* the items the loop of lines 91-104 yields for these content items, in order
YieldedContent(content) ==
    SelectSeq([i \in 1..Len(content) |-> ContentToItem(content[i])],
              LAMBDA item : item # NoItem)

\* structured output first, then the content, then the error state
RemoteItemsStructuredFirst(result) ==
    IF result.state = "raised"
    THEN << McpErrorItem(result.msg) >>
    ELSE (IF result.structured THEN << StructuredItem >> ELSE <<>>)
         \o YieldedContent(result.content)
         \o (IF result.isError THEN << ErrorStateItem >> ELSE <<>>)

\* everything tool_function yields for a result, in order (lines 87-115): the
\* translated content up to the first item whose translation raises, then either
\* the error item or the structured output and the error state
RemoteItems(result) ==
    IF result.state = "raised"
    THEN << McpErrorItem(result.msg) >>
    ELSE LET bad == { i \in 1..Len(result.content) : TranslationRaises(result.content[i]) }
         IN  IF bad # {}
             THEN LET first == CHOOSE i \in bad : \A j \in bad : i <= j
                  IN  YieldedContent(SubSeq(result.content, 1, first - 1))
                      \o << McpErrorItem(B64Error) >>
             ELSE YieldedContent(result.content)
                  \o (IF result.structured THEN << StructuredItem >> ELSE <<>>)
                  \o (IF result.isError THEN << ErrorStateItem >> ELSE <<>>)

(***************************************************************************)
(* The server's worker threads: AuthInterceptor and ModuleContextServicer  *)
(***************************************************************************)
Tokens == {"valid", "invalid", None}

\* the AuthInterceptor: a call passes iff its bearer token validates
AuthInterceptorPasses(token) == token = "valid"

\* interceptors=(auth_interceptor,) of grpc.server(...) in Server.run (line 267)
NoInterceptors == {}

ServerInterceptors == {"AuthInterceptor"}

Admitted(token) ==
    \A i \in ServerInterceptors : i = "AuthInterceptor" => AuthInterceptorPasses(token)

\* the server takes calls from server.start() until the process exits
Serving == phase \in {"serving", "cleanup"}

\* names a caller may ask for: every registered one and an unknown one
CallNames == DOMAIN tool_registry \cup {"nope"}

\* a call arrives at a free worker and goes through the interceptors
Arrive(t) ==
    /\ Serving
    /\ t \in env.pool
    /\ calls[t].pc \in {"idle", "done"}
    /\ \E rpc \in {"ListTools", "CallTool"}, token \in Tokens, name \in CallNames :
          LET c == [NoCall EXCEPT !.rpc = rpc, !.token = token,
                                  !.tool_name = IF rpc = "CallTool" THEN name ELSE None,
                                  !.after_fault =
                                      /\ calls[t].issued /\ calls[t].result.state = "raised"
                                      /\ rpc = "CallTool" /\ Admitted(token)
                                      /\ name = calls[t].tool_name]
          IN  calls' = [calls EXCEPT ![t] =
                  IF Admitted(token)
                  THEN [c EXCEPT !.pc = "validated"]
                  ELSE [c EXCEPT !.pc = "done", !.status = "UNAUTHENTICATED"]]
    /\ UNCHANGED <<client, MCP_AVAILABLE, mcp_backends, tool_registry, adapters, mcp_adapters,
                   phase, backend_i, env, registry_arg, outcomes>>

\* func.__doc__ or "No description available." (line 149)
DescriptionNoDefault(tool) == tool.doc

Description(tool) == IF Falsy(tool.doc) THEN "No description available." ELSE tool.doc

\* ModuleContextServicer.ListTools (lines 144-155)
ListTools(t) ==
    /\ Serving
    /\ calls[t].pc = "validated" /\ calls[t].rpc = "ListTools"
    /\ calls' = [calls EXCEPT ![t] =
          [@ EXCEPT !.pc = "done", !.status = "OK", !.handler_ran = TRUE,
                    !.lookups = @ + 1,
                    !.response = { [name |-> n, description |-> Description(tool_registry[n])] :
                                     n \in DOMAIN tool_registry }]]
    /\ UNCHANGED <<client, MCP_AVAILABLE, mcp_backends, tool_registry, adapters, mcp_adapters,
                   phase, backend_i, env, registry_arg, outcomes>>

\* CallTool from a step of the tool source to its next yield or its end
\* (lines 170-192): an item is encoded and yielded, the end of the source ends
\* the call, a fault is caught and yielded as the last chunk
DeliverFaultDropped(c, out) ==
    CASE out.kind = "yield" ->
            [c EXCEPT !.pc = "yielded", !.produced = Append(@, out.item),
                      !.chunks = Append(@, EncodeChunk(c.sequence_id, out.item))]
      [] out.kind = "return" -> [c EXCEPT !.pc = "done", !.status = "OK"]
      [] OTHER -> [c EXCEPT !.pc = "done", !.status = "OK", !.fault = out.msg]

DeliverFaultAborts(c, out) ==
    CASE out.kind = "yield" ->
            [c EXCEPT !.pc = "yielded", !.produced = Append(@, out.item),
                      !.chunks = Append(@, EncodeChunk(c.sequence_id, out.item))]
      [] out.kind = "return" -> [c EXCEPT !.pc = "done", !.status = "OK"]
      [] OTHER -> [c EXCEPT !.pc = "done", !.status = "INTERNAL", !.fault = out.msg]

\* a handler that drains the tool source into a list before it emits anything
DeliverBuffered(c, out) ==
    CASE out.kind = "yield" -> [c EXCEPT !.pc = "yielded", !.produced = Append(@, out.item)]
      [] out.kind = "return" ->
            [c EXCEPT !.pc = "done", !.status = "OK",
                      !.chunks = [k \in 1..Len(c.produced) |->
                                     EncodeChunk(k - 1, c.produced[k])]]
      [] OTHER ->
            [c EXCEPT !.pc = "yielded_error", !.fault = out.msg,
                      !.chunks = Append(@, ErrorChunk(c.sequence_id, out.msg))]

\* a handler that does not end when its tool source is exhausted
DeliverIgnoresReturn(c, out) ==
    CASE out.kind = "yield" ->
            [c EXCEPT !.pc = "yielded", !.produced = Append(@, out.item),
                      !.chunks = Append(@, EncodeChunk(c.sequence_id, out.item))]
      [] out.kind = "return" -> [c EXCEPT !.pc = "yielded", !.sequence_id = @ - 1]
      [] OTHER ->
            [c EXCEPT !.pc = "yielded_error", !.fault = out.msg,
                      !.chunks = Append(@, ErrorChunk(c.sequence_id, out.msg))]

Deliver(c, out) ==
    CASE out.kind = "yield" ->
            [c EXCEPT !.pc = "yielded", !.produced = Append(@, out.item),
                      !.chunks = Append(@, EncodeChunk(c.sequence_id, out.item))]
      [] out.kind = "return" -> [c EXCEPT !.pc = "done", !.status = "OK"]
      [] OTHER ->
            [c EXCEPT !.pc = "yielded_error", !.fault = out.msg,
                      !.chunks = Append(@, ErrorChunk(c.sequence_id, out.msg))]

\* self.tool_registry.get(request.tool_name) and the test of line 162
LookupFound(registry, name) == name \in DOMAIN registry

\* ModuleContextServicer.CallTool up to the for statement (lines 157-170):
\* an unknown name aborts with NOT_FOUND, a known one calls the tool function
DispatchUnknownAsErrorChunk(c, registry) ==
    IF ~LookupFound(registry, c.tool_name)
    THEN [c EXCEPT !.pc = "yielded_error", !.handler_ran = TRUE, !.lookups = @ + 1,
                   !.chunks = Append(@, ErrorChunk(0, "not found"))]
    ELSE [c EXCEPT !.pc = "started", !.handler_ran = TRUE, !.lookups = @ + 1,
                   !.tool = registry[c.tool_name], !.invoked = @ + 1,
                   !.sequence_id = 0,
                   !.gen_pc = IF registry[c.tool_name].kind = "mcp" THEN "start" ELSE "none"]

Dispatch(c, registry) ==
    IF ~LookupFound(registry, c.tool_name)
    THEN [c EXCEPT !.pc = "done", !.status = "NOT_FOUND", !.handler_ran = TRUE,
                   !.lookups = @ + 1]
    ELSE [c EXCEPT !.pc = "started", !.handler_ran = TRUE, !.lookups = @ + 1,
                   !.tool = registry[c.tool_name], !.invoked = @ + 1,
                   !.sequence_id = 0,
                   !.gen_pc = IF registry[c.tool_name].kind = "mcp" THEN "start" ELSE "none"]

\* the registry a CallTool leaves behind: get() only reads it
RegistryAfterPop(registry, name) ==
    [n \in DOMAIN registry \ {name} |-> registry[n]]

RegistryAfterLookup(registry, name) == registry

CallToolDispatch(t) ==
    /\ Serving
    /\ calls[t].pc = "validated" /\ calls[t].rpc = "CallTool"
    /\ \E arguments \in env.arguments :
          LET c == Dispatch(calls[t], tool_registry)
          IN  calls' = [calls EXCEPT ![t] =
                  \* arguments = MessageToDict(request.arguments) (line 166)
                  IF c.pc = "started" THEN [c EXCEPT !.arguments = arguments] ELSE c]
    /\ tool_registry' = RegistryAfterLookup(tool_registry, calls[t].tool_name)
    /\ UNCHANGED <<client, MCP_AVAILABLE, mcp_backends, adapters, mcp_adapters,
                   phase, backend_i, env, registry_arg, outcomes>>

\* the next step of the remote tool_function once it has its result
RemoteNext(c) ==
    LET items == RemoteItems(c.result)
    IN  IF Len(c.produced) < Len(items) THEN Yield(items[Len(c.produced) + 1]) ELSE Return

\* what the tool source of call c may do next
SourceNext(c) ==
    CASE c.tool.kind = "mcp"            -> {RemoteNext(c)}
      [] c.tool.fn = "tool_file_reader"   -> tool_file_reader(c.arguments, c.produced)
      [] c.tool.fn = "tool_web_search"    -> tool_web_search(c.arguments, c.produced)
      [] c.tool.fn = "tool_image_fetcher" -> tool_image_fetcher(c.arguments, c.produced)
      [] c.tool.fn = "tool_render_html"   -> tool_render_html(c.arguments, c.produced)
      [] OTHER                            -> NativeNext(c.tool.fn, c.produced)

\* next() on the tool function by the for statement of line 170: the step's
\* effects happen, what it gives is delivered
Pull(c, out) ==
    [Deliver(c, out) EXCEPT !.effects = @ \cup Effects(c.tool.fn, c.arguments, c.produced)]

\* the first next() on a native tool function
FirstPull(t) ==
    /\ Serving
    /\ calls[t].pc = "started" /\ calls[t].tool.kind = "native"
    /\ \E out \in SourceNext(calls[t]) : calls' = [calls EXCEPT ![t] = Pull(@, out)]
    /\ UNCHANGED <<client, MCP_AVAILABLE, mcp_backends, tool_registry, adapters, mcp_adapters,
                   phase, backend_i, env, registry_arg, outcomes>>

\* the transport asks for the next chunk: the generator resumes after its yield
\* (line 184 after line 183, the end after line 189)
Resume(t) ==
    /\ Serving
    /\ ~calls[t].cancelled
    /\ \/ /\ calls[t].pc = "yielded"
          /\ LET c == [calls[t] EXCEPT !.sequence_id = NextSequenceId(@)]
             IN  \E out \in SourceNext(c) : calls' = [calls EXCEPT ![t] = Pull(c, out)]
       \/ /\ calls[t].pc = "yielded_error"
          /\ calls' = [calls EXCEPT ![t] = [@ EXCEPT !.pc = "done", !.status = "OK"]]
    /\ UNCHANGED <<client, MCP_AVAILABLE, mcp_backends, tool_registry, adapters, mcp_adapters,
                   phase, backend_i, env, registry_arg, outcomes>>

\* the caller cancels a CallTool or disconnects. Nothing in CallTool or in
\* tool_function looks at the context (no is_active, no add_callback): a worker
\* inside the handler runs on to its next yield
Cancel(t) ==
    /\ Serving
    /\ t \in env.cancelling
    /\ calls[t].rpc = "CallTool" /\ calls[t].pc \in {"started", "yielded"}
    /\ ~calls[t].cancelled
    /\ calls' = [calls EXCEPT ![t].cancelled = TRUE,
                              ![t].cancelled_after = Len(calls[t].chunks)]
    /\ UNCHANGED <<client, MCP_AVAILABLE, mcp_backends, tool_registry, adapters, mcp_adapters,
                   phase, backend_i, env, registry_arg, outcomes>>

\* the transport finds the call cancelled after a yield: it does not resume the
\* generator, which is dropped suspended at line 183
Abandon(t) ==
    /\ Serving
    /\ calls[t].pc = "yielded" /\ calls[t].cancelled
    /\ calls' = [calls EXCEPT ![t] = [@ EXCEPT !.pc = "done", !.status = "CANCELLED"]]
    /\ UNCHANGED <<client, MCP_AVAILABLE, mcp_backends, tool_registry, adapters, mcp_adapters,
                   phase, backend_i, env, registry_arg, outcomes>>

\* tool_function, first next(): lines 80-81 and the _check_running of
\* run_until_complete; a loop another thread is running raises RuntimeError,
\* which line 114 turns into an item
RemoteCheck(t) ==
    /\ Serving
    /\ calls[t].pc = "started" /\ calls[t].gen_pc = "start"
    /\ LET ai == calls[t].tool.adapter
       IN  /\ adapters' = [adapters EXCEPT ![ai].loop = TRUE]
           /\ calls' = [calls EXCEPT ![t] =
                 IF adapters[ai].running # {}
                 THEN LET c == [@ EXCEPT !.gen_pc = "streaming",
                                         !.result = Raised("This event loop is already running")]
                      IN  Deliver(c, RemoteNext(c))
                 ELSE [@ EXCEPT !.gen_pc = "checked"]]
    /\ UNCHANGED <<client, MCP_AVAILABLE, mcp_backends, tool_registry, mcp_adapters,
                   phase, backend_i, env, registry_arg, outcomes>>

\* the loop starts running in this thread and session.call_tool is issued
\* (lines 84, 88); the check and this step are not atomic
RemoteRun(t) ==
    /\ Serving
    /\ calls[t].pc = "started" /\ calls[t].gen_pc = "checked"
    /\ adapters' = [adapters EXCEPT ![calls[t].tool.adapter].running = @ \cup {t}]
    /\ calls' = [calls EXCEPT ![t].gen_pc = "awaiting", ![t].issued = TRUE,
                              ![t].remote_call =
                                  [name |-> calls[t].tool.name,
                                   arguments |-> calls[t].arguments,
                                   adapter |-> calls[t].tool.adapter]]
    /\ UNCHANGED <<client, MCP_AVAILABLE, mcp_backends, tool_registry, mcp_adapters,
                   phase, backend_i, env, registry_arg, outcomes>>

\* the threads running the loop once run_until_complete has ended in thread t
\* with r: returning or raising, it stops running the loop
StopLoopUnlessRaised(running, t, r) ==
    IF r.state = "raised" THEN running ELSE running \ {t}

StopLoop(running, t, r) == running \ {t}

\* run_until_complete returns the result or raises; tool_function goes on to
\* its first yield or its end (lines 88-115)
RemoteReturn(t) ==
    /\ Serving
    /\ calls[t].pc = "started" /\ calls[t].gen_pc = "awaiting"
    /\ \E r \in Results(env.max_content) \cup {Raised(m) : m \in RemoteFaults} :
          LET c == [calls[t] EXCEPT !.gen_pc = "streaming", !.result = r]
          IN  /\ calls' = [calls EXCEPT ![t] = Deliver(c, RemoteNext(c))]
              /\ adapters' = [adapters EXCEPT ![calls[t].tool.adapter].running =
                                                  StopLoop(@, t, r)]
    /\ UNCHANGED <<client, MCP_AVAILABLE, mcp_backends, tool_registry, mcp_adapters,
                   phase, backend_i, env, registry_arg, outcomes>>

(***************************************************************************)
(* Server.run and Server._cleanup                                          *)
(***************************************************************************)
\* Server.run up to server.start() (lines 264-286); a failure exits (294-300)
RunStarts ==
    /\ phase = "constructed"
    /\ \E ok \in BOOLEAN : phase' = IF ok THEN "serving" ELSE "exited"
    /\ UNCHANGED <<client, MCP_AVAILABLE, mcp_backends, tool_registry, adapters, mcp_adapters,
                   backend_i, calls, env, registry_arg, outcomes>>

\* KeyboardInterrupt in wait_for_termination (lines 288-292)
KeyboardInterrupt ==
    /\ phase = "serving"
    /\ phase' = "cleanup"
    /\ backend_i' = 1
    /\ UNCHANGED <<client, MCP_AVAILABLE, mcp_backends, tool_registry, adapters, mcp_adapters,
                   calls, env, registry_arg, outcomes>>

CloseOutcomes == {"ok", "session_close_raises", "aexit_raises"}

\* MCPToolAdapter.close (lines 125-134): whatever is raised is swallowed
Close(a, outcome) ==
    IF a.session /\ outcome = "session_close_raises"
    THEN [a EXCEPT !.close_attempts = @ + 1]
    ELSE IF a.context # "none" /\ outcome = "ok"
    THEN [a EXCEPT !.close_attempts = @ + 1, !.context = "exited"]
    ELSE [a EXCEPT !.close_attempts = @ + 1]

\* a loop without the try of line 308: the first failing close ends it
CleanupStepStopsAtFailure ==
    /\ phase = "cleanup"
    /\ backend_i <= Len(mcp_adapters)
    /\ \E outcome \in CloseOutcomes :
          /\ adapters' = [adapters EXCEPT ![mcp_adapters[backend_i]] = Close(@, outcome)]
          /\ backend_i' = IF outcome = "ok" THEN backend_i + 1 ELSE Len(mcp_adapters) + 1
    /\ UNCHANGED <<client, MCP_AVAILABLE, mcp_backends, tool_registry, mcp_adapters,
                   phase, calls, env, registry_arg, outcomes>>

\* one iteration of the loop of Server._cleanup (lines 307-311)
CleanupStep ==
    /\ phase = "cleanup"
    /\ backend_i <= Len(mcp_adapters)
    /\ \E outcome \in CloseOutcomes :
          adapters' = [adapters EXCEPT ![mcp_adapters[backend_i]] = Close(@, outcome)]
    /\ backend_i' = backend_i + 1
    /\ UNCHANGED <<client, MCP_AVAILABLE, mcp_backends, tool_registry, mcp_adapters,
                   phase, calls, env, registry_arg, outcomes>>

\* _cleanup and run return: the process ends
CleanupReturns ==
    /\ phase = "cleanup"
    /\ backend_i > Len(mcp_adapters)
    /\ phase' = "exited"
    /\ UNCHANGED <<client, MCP_AVAILABLE, mcp_backends, tool_registry, adapters, mcp_adapters,
                   backend_i, calls, env, registry_arg, outcomes>>

\* the server of the serving runs: the registry of tests/conftest.py with a stub
\* tool, and one MCP backend
ServingBackends ==
    << [name |-> "a", command |-> TRUE, server_tools |-> {"x"}, connect |-> {"ok"}] >>

\* the example server: the tools of examples/simple_server.py and one MCP
\* backend, one worker thread, callers sending every argument dict
InitExample ==
    InitFields(ExampleToolRegistry, ServingBackends, TRUE,
               [pool |-> {"w1"}, cancelling |-> {"w1"}, arguments |-> ExampleArguments,
                content |-> ContentItemsConcurrent,
                max_content |-> MaxContentConcurrent])

\* one worker thread (max_workers=1 of tests/conftest.py), any tool source
Init ==
    InitFields(ServingRegistry, ServingBackends, TRUE,
               [pool |-> {"w1"}, cancelling |-> {"w1"}, arguments |-> {NoArguments},
                content |-> ContentItems,
                max_content |-> MaxContent])

\* two of the worker threads of Server.run (max_workers=10), the mock tools
InitConcurrent ==
    InitFields(MockToolRegistry, ServingBackends, TRUE,
               [pool |-> Threads, cancelling |-> {"w2"}, arguments |-> {NoArguments},
                content |-> ContentItemsConcurrent,
                max_content |-> MaxContentConcurrent])

Worker(t) ==
    \/ Arrive(t)
    \/ ListTools(t)
    \/ CallToolDispatch(t)
    \/ FirstPull(t)
    \/ Resume(t)
    \/ Cancel(t)
    \/ Abandon(t)
    \/ RemoteCheck(t)
    \/ RemoteRun(t)
    \/ RemoteReturn(t)

Next ==
    \/ InitBackendStep
    \/ InitReturns
    \/ RunStarts
    \/ KeyboardInterrupt
    \/ CleanupStep
    \/ CleanupReturns
    \/ \E t \in Threads : Worker(t)

Spec == Init /\ [][Next]_vars

SpecConcurrent == InitConcurrent /\ [][Next]_vars

SpecExample == InitExample /\ [][Next]_vars

(***************************************************************************)
(* A server of MCP backends only, from construction to serving             *)
(***************************************************************************)
\* the longest mcp_backends list of these runs
MaxServingBackends == 2

\* backend configs whose command is given and whose connect succeeds
ConnectingConfigs ==
    { [cfg EXCEPT !.connect = {"ok"}] : cfg \in { b \in BackendConfigs : b.command } }

\* the argument dicts the callers of these runs send
RemoteArguments == { NoArguments, Arguments("query", "grpc") }

\* Server(mcp_backends=...) without native tools, with any list of backends
InitBackends ==
    \E backends \in SeqUpTo(ConnectingConfigs, MaxServingBackends) :
        InitFields([n \in {} |-> NoTool], backends, TRUE,
                   [pool |-> {"w1"}, cancelling |-> {}, arguments |-> RemoteArguments,
                    content |-> ContentItemsConcurrent,
                    max_content |-> MaxContentConcurrent])

\* construction, the start of the server and the calls it serves
NextBackends ==
    \/ InitBackendStep
    \/ InitReturns
    \/ RunStarts
    \/ \E t \in Threads :
          \/ Arrive(t)
          \/ ListTools(t)
          \/ CallToolDispatch(t)
          \/ Resume(t)
          \/ RemoteCheck(t)
          \/ RemoteRun(t)
          \/ RemoteReturn(t)

SpecBackends == InitBackends /\ [][NextBackends]_vars

(***************************************************************************)
(* The client (src/ModuleContextStreaming/client.py)                       *)
(***************************************************************************)
\* what requests.post(token_url, ...) and the response may be
HttpOutcomes ==
    {"ConnectionError", "Timeout", "401", "500", "200_token", "200_not_json",
     "200_no_access_token"}

\* what a call of a function gives: it returns a value or raises
Returns(value) == [raised |-> None, value |-> value]

Raises(exception) == [raised |-> exception, value |-> None]

\* get_keycloak_token (lines 23-53). json_error_is_request_exception: whether
\* response.json() raises a RequestException (requests >= 2.27) or a plain
\* ValueError on a body that is not JSON
get_keycloak_tokenUncaught(http, json_error_is_request_exception) ==
    CASE http = "200_token" -> Returns("jwt")
      [] http = "200_no_access_token" -> Raises("KeyError")
      [] http = "200_not_json" -> Raises("ValueError")
      [] http \in {"401", "500"} -> Raises("HTTPError")
      [] OTHER -> Raises(http)

get_keycloak_token(http, json_error_is_request_exception) ==
    CASE http \in {"ConnectionError", "Timeout"} ->
            \* requests.post raises a RequestException
            Returns(None)
      [] http \in {"401", "500"} ->
            \* raise_for_status raises HTTPError, a RequestException
            Returns(None)
      [] http = "200_not_json" ->
            IF json_error_is_request_exception THEN Returns(None) ELSE Raises("ValueError")
      [] http = "200_no_access_token" ->
            \* response.json()["access_token"]: KeyError is not caught
            Raises("KeyError")
      [] OTHER -> Returns("jwt")

\* the Keycloak settings run() requires (lines 80-82)
KeycloakSettings ==
    {"keycloak_url", "keycloak_realm", "keycloak_client_id", "keycloak_audience",
     "keycloak_client_secret"}

\* the RPCs run() sends, in order (lines 115-190)
ClientRpcs ==
    << "ListTools", "CallTool render_html", "CallTool web_search", "CallTool image_fetcher" >>

\* run() up to the settings check (lines 69-84)
ClientCheckSettings ==
    /\ client.pc = "start"
    /\ client' = [client EXCEPT !.pc = IF client.settings = KeycloakSettings
                                       THEN "authenticating" ELSE "returned"]
    /\ UNCHANGED server_vars

\* jwt_token = get_keycloak_token(...) and the test of line 96
ClientAuthenticate ==
    /\ client.pc = "authenticating"
    /\ LET r == get_keycloak_token(client.http, client.json_error)
       IN  client' =
             IF r.raised # None
             THEN [client EXCEPT !.pc = "raised", !.token_call = "raised",
                                 !.raised = r.raised]
             ELSE [client EXCEPT !.pc = IF Falsy(r.value) THEN "returned" ELSE "authenticated",
                                 !.token_call = "returned", !.jwt_token = r.value]
    /\ UNCHANGED server_vars

\* open('certs/certificate.pem') and the channel (lines 102-113)
ClientOpenCertificate ==
    /\ client.pc = "authenticated"
    /\ client' = [client EXCEPT !.pc = IF client.certificate THEN "calling" ELSE "returned"]
    /\ UNCHANGED server_vars

\* the next RPC of run(), sent with the token; a grpc.RpcError is caught and
\* run() goes on to the next one
ClientSendRpc ==
    /\ client.pc = "calling"
    /\ LET sent == Append(client.rpcs, ClientRpcs[Len(client.rpcs) + 1])
       IN  client' = [client EXCEPT !.rpcs = sent,
                                    !.pc = IF Len(sent) = Len(ClientRpcs)
                                           THEN "returned" ELSE "calling"]
    /\ UNCHANGED server_vars

\* a client process in any configuration and environment, and no server
InitClient ==
    /\ \E settings \in SUBSET KeycloakSettings, http \in HttpOutcomes,
          json_error \in BOOLEAN, certificate \in BOOLEAN :
          client = [NoClient EXCEPT !.pc = "start", !.settings = settings, !.http = http,
                                    !.json_error = json_error, !.certificate = certificate]
    /\ MCP_AVAILABLE = FALSE
    /\ env = [pool |-> {}, cancelling |-> {}, arguments |-> {}, content |-> {},
              max_content |-> 0]
    /\ mcp_backends = <<>>
    /\ tool_registry = <<>>
    /\ adapters = <<>>
    /\ mcp_adapters = <<>>
    /\ phase = "exited"
    /\ backend_i = 1
    /\ calls = [t \in Threads |-> NoCall]
    /\ registry_arg = <<>>
    /\ outcomes = <<>>

NextClient ==
    \/ ClientCheckSettings
    \/ ClientAuthenticate
    \/ ClientOpenCertificate
    \/ ClientSendRpc

SpecClient == InitClient /\ [][NextClient]_vars

(***************************************************************************)
(* One MCP backend whose tool answers with content of every type           *)
(***************************************************************************)
\* the most content items in one remote CallToolResult of these runs
MaxContentAnyType == 2

\* Server(mcp_backends=[a]) without native tools; the remote tool answers with
\* any content items
InitRemote ==
    InitFields([n \in {} |-> NoTool], ServingBackends, TRUE,
               [pool |-> {"w1"}, cancelling |-> {}, arguments |-> {NoArguments},
                content |-> ContentItemsAnyType,
                max_content |-> MaxContentAnyType])

SpecRemote == InitRemote /\ [][NextBackends]_vars

(***************************************************************************)
(* A server that keeps serving callers that take every chunk               *)
(***************************************************************************)
\* one worker thread, any tool source, callers that do not cancel
InitLive ==
    InitFields(ServingRegistry, ServingBackends, TRUE,
               [pool |-> {"w1"}, cancelling |-> {}, arguments |-> {NoArguments},
                content |-> ContentItems,
                max_content |-> MaxContent])

\* the steps of the handler of one call: the worker thread runs it, and the
\* transport asks it for the next chunk, until it ends; the remote server
\* answers every call_tool
Handler(t) ==
    \/ ListTools(t)
    \/ CallToolDispatch(t)
    \/ FirstPull(t)
    \/ Resume(t)
    \/ RemoteCheck(t)
    \/ RemoteRun(t)
    \/ RemoteReturn(t)

\* construction, the start of the server and the calls it serves
NextLive ==
    \/ InitBackendStep
    \/ InitReturns
    \/ RunStarts
    \/ \E t \in Threads : Arrive(t) \/ Handler(t)

SpecLive == InitLive /\ [][NextLive]_vars /\ \A t \in Threads : WF_vars(Handler(t))

(***************************************************************************)
(* A server of MCP backends from construction to the end of run            *)
(***************************************************************************)
\* the longest mcp_backends list of these runs
MaxShutdownBackends == 3

\* backend configs with a command and one tool; their connect may fail
ShutdownConfigs == { b \in BackendConfigs : b.command /\ b.server_tools = {"x"} }

\* Server(mcp_backends=...) without native tools and without callers
InitShutdown ==
    \E backends \in SeqUpTo(ShutdownConfigs, MaxShutdownBackends) :
        InitFields([n \in {} |-> NoTool], backends, TRUE,
                   [pool |-> {}, cancelling |-> {}, arguments |-> {}, content |-> {},
                    max_content |-> 0])

\* server.wait_for_termination() ends without KeyboardInterrupt (line 289): the
\* server was stopped, or another exception left the inner try, whose only
\* handler is the one of line 290; run ends without _cleanup
WaitEnds ==
    /\ phase = "serving"
    /\ phase' = "exited"
    /\ UNCHANGED <<client, MCP_AVAILABLE, mcp_backends, tool_registry, adapters, mcp_adapters,
                   backend_i, calls, env, registry_arg, outcomes>>

\* construction, the start of the server and its end
NextShutdown ==
    \/ InitBackendStep
    \/ InitReturns
    \/ RunStarts
    \/ KeyboardInterrupt
    \/ WaitEnds
    \/ CleanupStep
    \/ CleanupReturns

SpecShutdown == InitShutdown /\ [][NextShutdown]_vars

(***************************************************************************)
(* Claims                                                                  *)
(***************************************************************************)
\* the calls that reached ModuleContextServicer.CallTool
CallToolCalls == { t \in Threads : calls[t].rpc = "CallTool" /\ calls[t].handler_ran }

\* C1: the sequence_id values of the chunks of a CallTool on a registered tool
\* are, in emission order, 0, 1, ..., N-1, the final error chunk of a failed call
\* counted among them.
C1_SequenceIdsGapless ==
    \A t \in CallToolCalls :
        \A i \in 1..Len(calls[t].chunks) : calls[t].chunks[i].sequence_id = i - 1

\* a failed call that ended after three item chunks and the error chunk
C1_Witness ==
    \E t \in CallToolCalls :
        /\ calls[t].pc = "done" /\ calls[t].fault # None
        /\ Len(calls[t].produced) = 3 /\ Len(calls[t].chunks) = 4
        /\ calls[t].chunks[4].sequence_id = 3

\* C2: a CallTool whose tool name is not in the registry emits no chunk, invokes
\* no tool function and is rejected with NOT_FOUND.
C2_UnknownToolRejected ==
    \A t \in Threads :
        (calls[t].rpc = "CallTool" /\ calls[t].tool_name \notin DOMAIN tool_registry) =>
            /\ calls[t].chunks = <<>>
            /\ calls[t].invoked = 0
            /\ calls[t].handler_ran =>
                  calls[t].pc = "done" /\ calls[t].status = "NOT_FOUND"

C2_Witness ==
    \E t \in CallToolCalls :
        /\ calls[t].tool_name = "nope" /\ calls[t].token = "valid"
        /\ calls[t].status = "NOT_FOUND" /\ calls[t].lookups = 1

\* chunk carries item as its one payload: a str as text, bytes as image data,
\* a dict as its JSON text
Carries(chunk, item) ==
    CASE item.type = "bytes" -> chunk.content_block = "image" /\ chunk.data = item.value
      [] item.type = "dict"  -> chunk.content_block = "text"
                                /\ chunk.text = "{\n  \"" \o item.value \o "\": 1\n}"
      [] OTHER               -> chunk.content_block = "text" /\ chunk.text = item.value

\* the calls whose tool source raised
FailedCalls == { t \in CallToolCalls : calls[t].fault # None }

\* C3: when the tool source raises after yielding k items, CallTool has emitted
\* the k chunks of those items, unaltered and in order, then exactly one chunk
\* for the fault, and nothing after it.
C3_PartialOutputThenOneError ==
    \A t \in FailedCalls :
        LET c == calls[t]
            k == Len(c.produced)
        IN  /\ Len(c.chunks) = k + 1
            /\ \A i \in 1..k : Carries(c.chunks[i], c.produced[i])
            /\ c.chunks[k + 1].text = "[Error: " \o c.fault \o "]"
            /\ c.pc \in {"yielded_error", "done"}

\* the source raised after two items and the call has ended
C3_Witness ==
    \E t \in FailedCalls :
        /\ calls[t].pc = "done"
        /\ Len(calls[t].produced) = 2
        /\ calls[t].produced[1].type = "bytes" /\ calls[t].produced[2].type = "dict"

C5_UnauthenticatedNeverReachesServicer ==
    \A t \in Threads :
        (calls[t].pc # "idle" /\ calls[t].token # "valid") =>
            /\ ~calls[t].handler_ran
            /\ calls[t].lookups = 0 /\ calls[t].invoked = 0
            /\ calls[t].chunks = <<>> /\ calls[t].response = {}
            /\ calls[t].pc = "done" /\ calls[t].status = "UNAUTHENTICATED"

\* a ListTools with no token and a CallTool of a registered tool with an
\* invalid one, both rejected
C5_Witness ==
    /\ calls["w1"].rpc = "ListTools" /\ calls["w1"].token = None
    /\ calls["w1"].status = "UNAUTHENTICATED"
    /\ calls["w2"].rpc = "CallTool" /\ calls["w2"].token = "invalid"
    /\ calls["w2"].tool_name \in DOMAIN tool_registry
    /\ calls["w2"].status = "UNAUTHENTICATED"

\* thread t has a tool call in flight on adapter ai: session.call_tool was
\* issued and the output sequence of the call is not finished
InFlight(t, ai) ==
    /\ calls[t].tool.kind = "mcp" /\ calls[t].tool.adapter = ai
    /\ calls[t].issued
    /\ calls[t].pc # "done"

\* C6, as claimed: on every backend connection at most one tool call is in
\* flight at any instant, from its session.call_tool to the end of its output.
C6_OneCallInFlightPerConnection ==
    \A ai \in 1..Len(adapters) :
        Cardinality({ t \in Threads : InFlight(t, ai) }) <= 1

\* C7: a fault of the tool source never fails the RPC: the call ends OK after
\* the error chunk; CallTool rejects with NOT_FOUND exactly when the name is
\* not in the registry, and then without any chunk.
C7_FaultsInBandNotFoundOnly ==
    \A t \in CallToolCalls :
        LET c == calls[t]
        IN  /\ c.status \in {None, "OK", "NOT_FOUND", "CANCELLED"}
            /\ c.status = "NOT_FOUND" <=> c.tool_name \notin DOMAIN tool_registry
            /\ c.status = "NOT_FOUND" => c.chunks = <<>>
            /\ c.pc = "done" <=> c.status # None
            /\ (c.fault # None /\ c.pc = "done") =>
                  /\ c.status = "OK"
                  /\ c.chunks # <<>>
                  /\ c.chunks[Len(c.chunks)].text = "[Error: " \o c.fault \o "]"

\* a call whose source raised after one item, ended OK
C7_Witness ==
    \E t \in FailedCalls :
        /\ calls[t].pc = "done" /\ calls[t].status = "OK"
        /\ Len(calls[t].produced) = 1 /\ Len(calls[t].chunks) = 2

\* C10: after construction no step changes the registry: no ListTools, no
\* CallTool (served, rejected or failed) and no step of the shutdown.
C10_RegistryFrozenAfterStartup ==
    [][phase # "init" => tool_registry' = tool_registry]_vars

\* the registry was extended at startup, a CallTool of the remote tool was
\* served, and the server has shut down with the backend closed
C10_Witness ==
    /\ phase = "exited"
    /\ tool_registry # registry_arg /\ "a:x" \in DOMAIN tool_registry
    /\ adapters[1].close_attempts = 1
    /\ calls["w1"].tool_name = "a:x" /\ calls["w1"].status = "OK"
    /\ Len(calls["w1"].chunks) = 2

\* what a backend enumerated: the tools its server lists when its connection
\* was established, nothing when it was not
EnumeratedTools(k) ==
    IF k <= Len(outcomes) /\ outcomes[k] = "ok" THEN mcp_backends[k].server_tools ELSE {}

\* the merge the registry build is specified as: native tools under their bare
\* names, then backend 1..k in order, each tool under <backend-name>:<tool-name>,
\* a later insertion replacing an earlier one; the value is where an entry comes from
RECURSIVE ExpectedMerge(_)
ExpectedMerge(k) ==
    IF k = 0
    THEN [n \in DOMAIN registry_arg |->
            [kind |-> "native", backend |-> 0, tool |-> registry_arg[n].doc]]
    ELSE LET prev == ExpectedMerge(k - 1)
             b    == ConfigName(mcp_backends[k])
             new  == { b \o ":" \o t : t \in EnumeratedTools(k) }
         IN  [n \in DOMAIN prev \cup new |->
                IF n \in new
                THEN [kind |-> "mcp", backend |-> k,
                      tool |-> CHOOSE t \in EnumeratedTools(k) : b \o ":" \o t = n]
                ELSE prev[n]]

\* where each entry of the registry comes from
RegistryOrigin ==
    [n \in DOMAIN tool_registry |->
        LET e == tool_registry[n]
        IN  IF e.kind = "native"
            THEN [kind |-> "native", backend |-> 0, tool |-> e.doc]
            ELSE [kind |-> "mcp", backend |-> adapters[e.adapter].backend, tool |-> e.name]]

\* C8: after Server construction the registry is the merge of the native tools
\* and, in order, each backend's tools under <backend-name>:<tool-name>, a later
\* registration under one name replacing the earlier one.
C8_RegistryIsMerge ==
    phase # "init" => RegistryOrigin = ExpectedMerge(Len(mcp_backends))

\* a native tool "x" and backend tool "a:x" are both present, and "a:b:x" was
\* registered three times (natively, as a + b:x, as a:b + x): the last one is bound
C8_Witness ==
    /\ phase = "constructed"
    /\ {"x", "a:x", "a:b:x"} \subseteq DOMAIN tool_registry
    /\ "a:b:x" \in DOMAIN registry_arg
    /\ tool_registry["x"].kind = "native"
    /\ tool_registry["a:x"].kind = "mcp"
    /\ Len(outcomes) >= 2 /\ outcomes[1] = "ok" /\ outcomes[2] = "ok"
    /\ "b:x" \in mcp_backends[1].server_tools /\ ConfigName(mcp_backends[1]) = "a"
    /\ ConfigName(mcp_backends[2]) = "a:b"
    /\ tool_registry["a:b:x"].kind = "mcp"
    /\ adapters[tool_registry["a:b:x"].adapter].backend = 2

ConnectFailed(k) ==
    outcomes[k] \in {"aenter_fails", "initialize_fails", "list_tools_fails"}

\* C9: when a backend fails to connect, construction still completes with every
\* backend tried; the failed backend has no entry in the registry, and every
\* native name and every tool of every backend that connected is present.
C9_FailedBackendIsSkipped ==
    /\ phase = "init" => ENABLED NextStartup
    /\ (phase = "constructed" /\ \E k \in 1..Len(outcomes) : ConnectFailed(k)) =>
        /\ Len(outcomes) = Len(mcp_backends)
        /\ \A k \in 1..Len(outcomes) : ConnectFailed(k) =>
              \A n \in DOMAIN tool_registry :
                 tool_registry[n].kind = "mcp" =>
                    adapters[tool_registry[n].adapter].backend # k
        /\ DOMAIN registry_arg \subseteq DOMAIN tool_registry
        /\ \A k \in 1..Len(outcomes) : outcomes[k] = "ok" =>
              \A t \in mcp_backends[k].server_tools :
                 /\ PrefixedName(ConfigName(mcp_backends[k]), t) \in DOMAIN tool_registry
                 /\ tool_registry[PrefixedName(ConfigName(mcp_backends[k]), t)].kind = "mcp"

\* a failed backend between two that connected, with tools of both registered
C9_Witness ==
    /\ phase = "constructed"
    /\ Len(outcomes) = 3
    /\ outcomes[1] = "ok" /\ ConnectFailed(2) /\ outcomes[3] = "ok"
    /\ ConfigName(mcp_backends[1]) = "a:b" /\ ConfigName(mcp_backends[3]) = "unnamed"
    /\ mcp_backends[2].server_tools # {}
    /\ {"a:b:x", "unnamed:x"} \subseteq DOMAIN tool_registry
    /\ Len(mcp_adapters) = 2 /\ Len(adapters) = 3

\* the ListTools calls that were answered
ListToolsCalls == { t \in Threads : calls[t].rpc = "ListTools" /\ calls[t].pc = "done"
                                    /\ calls[t].status # "UNAUTHENTICATED" }

\* C11: ListTools returns exactly one ToolDefinition per registry entry and
\* nothing else: the returned names are the registry's keys, each with the
\* description of the tool bound to it (its docstring, or the fixed default text
\* when it has none), and no tool function is executed.
C11_ListToolsIsRegistrySnapshot ==
    \A t \in ListToolsCalls :
        LET tools == calls[t].response
        IN  /\ calls[t].status = "OK"
            /\ { d.name : d \in tools } = DOMAIN tool_registry
            /\ Cardinality(tools) = Cardinality(DOMAIN tool_registry)
            /\ \A d \in tools :
                  d.description = IF tool_registry[d.name].doc \in {None, ""}
                                  THEN "No description available."
                                  ELSE tool_registry[d.name].doc
            /\ calls[t].invoked = 0 /\ calls[t].chunks = <<>> /\ calls[t].produced = <<>>

\* a ListTools answered with the two documented native tools, the stub tool
\* without docstring and the remote tool
C11_Witness ==
    \E t \in ListToolsCalls :
        /\ Cardinality(calls[t].response) = 4
        /\ [name |-> "stub_tool", description |-> "No description available."]
              \in calls[t].response
        /\ [name |-> "a:x", description |-> "does x"] \in calls[t].response
        /\ [name |-> "text_tool", description |-> "A simple tool that yields text."]
              \in calls[t].response

\* the MIME type of a binary item, told by its leading bytes: the PNG signature
\* 89 50 4e 47 0d 0a 1a 0a is image/png, anything unrecognised is opaque binary
MimeTypeOf(data) ==
    IF data = "89504e470d0a1a0a0000" THEN "image/png" ELSE "application/octet-stream"

\* C12, as claimed: CallTool emits one chunk per item the source produced, in
\* production order, with one payload: a text item as text, a structured mapping
\* as its JSON text, a binary item as an image chunk with the same bytes and the
\* item's own MIME type.
C12_OneChunkPerItemOwnMime ==
    \A t \in CallToolCalls :
        LET c == calls[t]
        IN  /\ Len(c.chunks) = Len(c.produced) + (IF c.fault # None THEN 1 ELSE 0)
            /\ \A i \in 1..Len(c.produced) :
                  /\ c.chunks[i].sequence_id = i - 1
                  /\ Carries(c.chunks[i], c.produced[i])
                  /\ c.produced[i].type = "bytes" =>
                        c.chunks[i].mime_type = MimeTypeOf(c.produced[i].value)

\* thread t is serving a CallTool on a tool of adapter ai that has not ended
InProgressOn(t, ai) ==
    /\ calls[t].rpc = "CallTool" /\ calls[t].pc \notin {"idle", "done"}
    /\ calls[t].tool.kind = "mcp" /\ calls[t].tool.adapter = ai

\* C13, as claimed: adapter.close() happens only once the listener takes no new
\* call and no CallTool on that backend is still in progress.
C13_CloseOnlyAfterDrain ==
    \A ai \in 1..Len(adapters) :
        adapters[ai].close_attempts > 0 =>
            /\ ~Serving
            /\ \A t \in Threads : ~InProgressOn(t, ai)

\* the calls the caller cancelled
CancelledCalls == { t \in Threads : calls[t].cancelled }

\* C14, as claimed: once the caller has cancelled after j chunks, no further
\* item is pulled from the tool source, no further chunk is emitted, and no
\* backend connection is busy on behalf of the cancelled call.
C14_CancelStopsProductionAndFreesBackend ==
    \A t \in CancelledCalls :
        /\ Len(calls[t].produced) = calls[t].cancelled_after
        /\ Len(calls[t].chunks) = calls[t].cancelled_after
        /\ \A ai \in 1..Len(adapters) : t \notin adapters[ai].running

\* the calls that entered a remote tool function
RemoteCalls == { t \in CallToolCalls : calls[t].tool.kind = "mcp" }

\* the error items a remote tool function yields for a fault
IsMcpErrorItem(item) ==
    item.type = "str" /\ item.value \in { "[MCP Error: connection lost]",
                                         "[MCP Error: Incorrect padding]",
                                         "[MCP Error: This event loop is already running]" }

\* C15: a remote tool function never raises into CallTool. When session.call_tool
\* faulted, its output is exactly one error item and then it ends normally; any
\* fault inside it (a decode failure after some items as well) gives at most one
\* error item, and that one last. The adapter's loop is not left running by the
\* failed call, and the next call of the tool on that backend is issued and
\* answered, not refused because of the failed one.
C15_RemoteFaultIsOneLastErrorItem ==
    \A t \in RemoteCalls :
        LET c  == calls[t]
            n  == Len(c.produced)
            errs == { i \in 1..n : IsMcpErrorItem(c.produced[i]) }
        IN  /\ c.fault = None
            /\ c.status \in {None, "OK", "CANCELLED"}
            /\ Cardinality(errs) <= 1
            /\ \A i \in errs : i = n
            /\ (errs # {} /\ c.pc = "done" /\ ~c.cancelled) =>
                  /\ c.status = "OK" /\ Len(c.chunks) = n
                  /\ c.chunks[n] = [sequence_id |-> n - 1, content_block |-> "text",
                                    text |-> c.produced[n].value, data |-> None,
                                    mime_type |-> None]
            /\ (c.issued /\ c.result.state = "raised") =>
                  /\ c.produced = << [type |-> "str",
                                      value |-> "[MCP Error: " \o c.result.msg \o "]"] >>
                  /\ t \notin adapters[c.tool.adapter].running
                  /\ adapters[c.tool.adapter].session
            /\ (c.after_fault /\ c.gen_pc \in {"awaiting", "streaming"}) =>
                  /\ c.issued
                  /\ c.result.msg # "This event loop is already running"

\* after a call whose session.call_tool raised, the next call of the same tool
\* was issued and streamed its own result of two items
C15_Witness ==
    \E t \in RemoteCalls :
        /\ calls[t].after_fault /\ calls[t].issued
        /\ calls[t].pc = "done" /\ calls[t].status = "OK"
        /\ calls[t].result.state = "ok"
        /\ Len(calls[t].produced) = 2 /\ Len(calls[t].chunks) = 2

\* the key of the argument each of the three tools requires, and the error
\* marker it yields when that argument is missing or empty
RequiredArgument(fn) ==
    CASE fn = "tool_web_search"    -> "query"
      [] fn = "tool_image_fetcher" -> "url"
      [] OTHER                     -> "html_string"

ErrorMarker(fn) ==
    CASE fn = "tool_web_search"    -> "ERROR: A 'query' argument is required for web search."
      [] fn = "tool_image_fetcher" -> "ERROR: A 'url' argument is required to fetch an image."
      [] OTHER                     -> "ERROR: 'html_string' argument is required."

\* the calls of web_search, image_fetcher and render_html whose required argument
\* is absent, null or the empty string
CallsWithoutRequiredArgument ==
    { t \in CallToolCalls :
        /\ calls[t].tool.fn \in {"tool_web_search", "tool_image_fetcher", "tool_render_html"}
        /\ \/ calls[t].arguments.key # RequiredArgument(calls[t].tool.fn)
           \/ calls[t].arguments.value \in {None, ""} }

\* C16: a call of web_search, image_fetcher or render_html without its required
\* argument yields the error marker as its first and only item: one text chunk
\* with sequence_id 0, no fetch and no other effect of the tool, no fault, and
\* the call ends normally.
C16_MissingArgumentIsOneErrorMarker ==
    \A t \in CallsWithoutRequiredArgument :
        LET c == calls[t]
            marker == [sequence_id |-> 0, content_block |-> "text",
                       text |-> ErrorMarker(c.tool.fn), data |-> None, mime_type |-> None]
        IN  /\ c.effects = {}
            /\ c.fault = None
            /\ c.chunks \in { <<>>, << marker >> }
            /\ Len(c.produced) = Len(c.chunks)
            /\ c.pc \in {"yielded", "done"} => c.chunks = << marker >>
            /\ c.pc = "done" => c.status = IF c.cancelled THEN "CANCELLED" ELSE "OK"

\* render_html called with an empty html_string, ended OK with the one marker
C16_Witness ==
    \E t \in CallsWithoutRequiredArgument :
        /\ calls[t].tool_name = "render_html"
        /\ calls[t].arguments = [key |-> "html_string", value |-> ""]
        /\ calls[t].pc = "done" /\ calls[t].status = "OK"
        /\ Len(calls[t].chunks) = 1
        /\ calls[t].chunks[1].text = "ERROR: 'html_string' argument is required."

\* the file_reader calls whose path names nothing in the file system
CallsOfMissingFile ==
    { t \in CallToolCalls :
        /\ calls[t].tool_name = "file_reader"
        /\ calls[t].arguments.key = "path"
        /\ calls[t].arguments.value \notin {"README.md", "notes.txt", "latin1.txt", "docs", None} }

\* C17: CallTool('file_reader', {path: p}) for a path that does not exist yields
\* exactly one chunk, the text chunk with sequence_id 0 saying the file was not
\* found, and ends normally, not with an RPC error.
C17_MissingFileIsOneTextChunk ==
    \A t \in CallsOfMissingFile :
        LET c == calls[t]
            notfound == [sequence_id |-> 0, content_block |-> "text",
                         text |-> "ERROR: File not found at '" \o c.arguments.value \o "'.",
                         data |-> None, mime_type |-> None]
        IN  /\ c.fault = None
            /\ c.chunks \in { <<>>, << notfound >> }
            /\ c.pc \in {"yielded", "done"} => c.chunks = << notfound >>
            /\ c.pc = "done" => c.status = IF c.cancelled THEN "CANCELLED" ELSE "OK"

\* the call for 'missing.txt' ended OK with its one chunk
C17_Witness ==
    \E t \in CallsOfMissingFile :
        /\ calls[t].arguments.value = "missing.txt"
        /\ calls[t].pc = "done" /\ calls[t].status = "OK" /\ ~calls[t].cancelled
        /\ Len(calls[t].chunks) = 1
        /\ calls[t].chunks[1].text = "ERROR: File not found at 'missing.txt'."

\* C18: get_keycloak_token returns the access token when the token request
\* succeeds, and returns None without raising when the request fails (no
\* connection, timeout, server error) or the authentication is refused; run()
\* sends no ListTools and no CallTool unless it obtained a token.
C18_TokenOrNoneAndNoRpcWithoutToken ==
    /\ client.token_call # "not called" =>
          /\ client.http = "200_token" =>
                client.token_call = "returned" /\ client.jwt_token = "jwt"
          /\ client.http \in {"ConnectionError", "Timeout", "401", "500"} =>
                /\ client.token_call = "returned" /\ client.raised = None
                /\ client.jwt_token = None
    /\ client.rpcs # <<>> =>
          /\ client.token_call = "returned"
          /\ client.jwt_token \notin {None, ""}
          /\ client.settings = KeycloakSettings

\* with every setting given, Keycloak refused the credentials: run() returned
\* without a token and without an RPC
C18_Witness ==
    /\ client.pc = "returned" /\ client.settings = KeycloakSettings
    /\ client.http = "401" /\ client.certificate
    /\ client.token_call = "returned" /\ client.jwt_token = None
    /\ client.rpcs = <<>>

\* C19, as claimed: a CallTool for a remote tool that arrives while another call
\* on the same backend is in flight never gets an error item only because the
\* other call is in progress: every call that has output issued its own
\* session.call_tool and streams that call's result.
C19_OverlappingCallIsNotRefused ==
    \A t \in RemoteCalls :
        /\ \A i \in 1..Len(calls[t].produced) :
              calls[t].produced[i].value # "[MCP Error: This event loop is already running]"
        /\ calls[t].produced # <<>> => calls[t].issued

\* backend k's adapter, for a backend that connected
ConnectedAdapters == { mcp_adapters[i] : i \in 1..Len(mcp_adapters) }

\* the entry '<b>:<t>' of the registry is bound to tool t of adapter ai
BoundTo(n, ai, t) ==
    /\ n \in DOMAIN tool_registry
    /\ tool_registry[n].kind = "mcp"
    /\ tool_registry[n].adapter = ai
    /\ tool_registry[n].name = t
    /\ tool_registry[n].doc = IF t = "x" THEN "does x"
                              ELSE "MCP Tool from '" \o adapters[ai].name \o "': " \o t

\* what a served call of a remote entry issued: call_tool with the entry's tool
\* name and the caller's arguments on the entry's own adapter
IssuedAsBound ==
    \A t \in RemoteCalls :
        /\ calls[t].tool = tool_registry[calls[t].tool_name]
        /\ calls[t].issued =>
              calls[t].remote_call = [name |-> calls[t].tool.name,
                                      arguments |-> calls[t].arguments,
                                      adapter |-> calls[t].tool.adapter]

\* C20, as claimed: for every backend b and every tool t it exposes, the entry
\* '<b>:<t>' is bound to t on b's own session, with t's description or the
\* default naming b and t.
C20_EveryEntryBoundToItsOwnBackend ==
    phase # "init" =>
        /\ \A ai \in ConnectedAdapters : \A t \in adapters[ai].server_tools :
              BoundTo(adapters[ai].name \o ":" \o t, ai, t)
        /\ IssuedAsBound

\* C20, amended: the same for every entry that no later backend replaced: the
\* entry '<b>:<t>' is bound to t on b's own session unless a backend connected
\* after b registered a tool under the same full name, and then it is bound to
\* the last such backend's tool; whatever an entry is bound to, invoking it
\* issues call_tool with that tool's name and the caller's arguments on that
\* backend's session. No entry carries another tool's name of its own backend.
C20_EntryBoundToLastRegistrant ==
    phase # "init" =>
        /\ \A ai \in ConnectedAdapters : \A t \in adapters[ai].server_tools :
              LET n == adapters[ai].name \o ":" \o t
                  registrants ==
                      { r \in ConnectedAdapters \X {"x", "b:x"} :
                          /\ r[2] \in adapters[r[1]].server_tools
                          /\ adapters[r[1]].name \o ":" \o r[2] = n }
                  last == CHOOSE r \in registrants : \A q \in registrants : q[1] <= r[1]
              IN  BoundTo(n, last[1], last[2])
        /\ \A n \in DOMAIN tool_registry :
              tool_registry[n].kind = "mcp" =>
                 /\ n = adapters[tool_registry[n].adapter].name \o ":" \o tool_registry[n].name
                 /\ tool_registry[n].name \in adapters[tool_registry[n].adapter].server_tools
        /\ IssuedAsBound

\* backend 'a' exposes 'x' and 'b:x'; the entry 'a:b:x' was invoked with
\* arguments and issued call_tool('b:x', arguments) on a's adapter, while
\* 'a:x' is bound to 'x' with its own description
C20_Witness ==
    /\ Len(adapters) >= 1 /\ adapters[1].name = "a"
    /\ adapters[1].server_tools = {"x", "b:x"}
    /\ BoundTo("a:x", 1, "x") /\ BoundTo("a:b:x", 1, "b:x")
    /\ \E t \in RemoteCalls :
          /\ calls[t].tool_name = "a:b:x" /\ calls[t].pc = "done" /\ calls[t].status = "OK"
          /\ calls[t].remote_call = [name |-> "b:x", adapter |-> 1,
                                     arguments |-> [key |-> "query", value |-> "grpc"]]


\* the remote calls whose session.call_tool returned a result
AnsweredCalls == { t \in RemoteCalls : calls[t].issued /\ calls[t].result.state = "ok" }

\* item is what the content item stands for: its text, its decoded image data,
\* the text of an embedded resource under its uri, or the decoded blob
TranslatedFrom(item, content) ==
    CASE content.type = "text"  -> item = [type |-> "str", value |-> content.payload]
      [] content.type = "image" ->
            /\ item.type = "bytes"
            /\ content.payload = "AP8=" /\ item.value = "00ff"
      [] content.type = "resource" /\ content.resource.text # None ->
            item = [type |-> "str",
                    value |-> "[Resource: " \o content.resource.uri \o "]\n"
                              \o content.resource.text]
      [] content.type = "resource" /\ content.resource.blob # None ->
            /\ item.type = "bytes"
            /\ content.resource.blob = "AQI=" /\ item.value = "0102"
      [] OTHER -> FALSE

IsStructuredOutputItem(item) ==
    item = [type |-> "str", value |-> "\n[Structured Output]\n{\n  \"s\": 1\n}"]

IsErrorStateItem(item) ==
    item = [type |-> "str", value |-> "\n[Error: Tool execution failed]"]

\* C21: the output items of a remote tool call stand in the relative order of
\* the content items of the remote result they were translated from; the
\* structured-output item, when present, comes after all of them and the error
\* marker, when present, is the last item.
C21_RemoteOutputKeepsContentOrder ==
    \A t \in AnsweredCalls :
        LET c  == calls[t]
            p  == c.produced
            n  == Len(p)
            S  == { k \in 1..n : IsStructuredOutputItem(p[k]) }
            E  == { k \in 1..n : IsErrorStateItem(p[k]) }
            X  == { k \in 1..n : IsMcpErrorItem(p[k]) }
            C  == (1..n) \ (S \cup E \cup X)
        IN  /\ \E f \in [C -> 1..Len(c.result.content)] :
                  /\ \A k \in C : TranslatedFrom(p[k], c.result.content[f[k]])
                  /\ \A j, k \in C : j < k => f[j] < f[k]
            /\ Cardinality(S) <= 1 /\ Cardinality(E) <= 1
            /\ \A k \in S : c.result.structured /\ \A j \in C : j < k
            /\ \A k \in E : c.result.isError /\ k = n /\ \A j \in S : j < k
            /\ (c.pc = "done" /\ X = {}) =>
                  /\ c.result.structured => S # {}
                  /\ c.result.isError => E # {}

\* a finished call whose result had a resource blob and then a text, structured
\* output and the error flag: four items, four chunks
C21_Witness ==
    \E t \in AnsweredCalls :
        LET c == calls[t]
        IN  /\ c.pc = "done" /\ c.status = "OK"
            /\ Len(c.result.content) = 2
            /\ c.result.content[1].type = "resource" /\ c.result.content[1].resource.blob # None
            /\ c.result.content[2].type = "text"
            /\ c.result.structured /\ c.result.isError
            /\ Len(c.produced) = 4 /\ Len(c.chunks) = 4

\* the answered calls that ended without a fault in the tool function
UnfaultedAnsweredCalls ==
    { t \in AnsweredCalls :
        /\ calls[t].pc = "done" /\ calls[t].status = "OK" /\ calls[t].fault = None
        /\ \A k \in 1..Len(calls[t].produced) : ~IsMcpErrorItem(calls[t].produced[k]) }

\* C22, as claimed: for a remote call that does not fault, every content item of
\* the result, whatever its type, gives exactly one output item, so the number
\* of output items is the number of content items, plus one for structured
\* output, plus one for the error flag.
C22_OneOutputItemPerContentItem ==
    \A t \in UnfaultedAnsweredCalls :
        LET c == calls[t]
        IN  Len(c.produced) = Len(c.result.content)
                              + (IF c.result.structured THEN 1 ELSE 0)
                              + (IF c.result.isError THEN 1 ELSE 0)


\* C23: dispatch is pull-based and unbuffered. Within one CallTool the tool
\* source is advanced one item at a time, only when the transport asks the
\* handler for its next chunk and only after the chunks of all earlier items were
\* emitted; the item's chunk is emitted in the same step of the handler, so the
\* source is never ahead of the chunks the transport has taken.
C23_PullBasedUnbuffered ==
    /\ [](\A t \in CallToolCalls : Len(calls[t].produced) <= Len(calls[t].chunks))
    /\ [][\A t \in Threads :
            LET c == calls[t]
                d == calls'[t]
            IN  (d.produced # <<>> /\ d.produced # c.produced) =>
                    /\ c.pc \in {"started", "yielded"}
                    /\ Len(c.chunks) = Len(c.produced)
                    /\ d.produced = Append(c.produced, d.produced[Len(d.produced)])
                    /\ Len(d.chunks) = Len(d.produced)
                    /\ Carries(d.chunks[Len(d.chunks)], d.produced[Len(d.produced)])
                    /\ d.pc = "yielded"]_vars

\* a call suspended at its yield with the chunk of its second item taken by the
\* transport: the source was asked twice and not yet for a third item
C23_Witness ==
    \E t \in CallToolCalls :
        /\ calls[t].pc = "yielded" /\ calls[t].tool.kind = "native"
        /\ Len(calls[t].produced) = 2 /\ Len(calls[t].chunks) = 2
        /\ calls[t].sequence_id = 1


\* the terminal states of a CallTool
Completed(c) == c.pc = "done" /\ c.status = "OK" /\ c.fault = None

Rejected(c) == c.pc = "done" /\ c.status = "NOT_FOUND"

Failed(c) == c.pc = "done" /\ c.status = "OK" /\ c.fault # None

Terminal(c) == Completed(c) \/ Rejected(c) \/ Failed(c)

\* the record of a call that has just arrived on a worker thread
JustArrived(c) ==
    /\ c.pc \in {"validated", "done"} /\ ~c.handler_ran
    /\ c.lookups = 0 /\ c.invoked = 0
    /\ c.chunks = <<>> /\ c.produced = <<>>

\* C24: every authenticated CallTool over a finite tool source, on a server that
\* keeps serving and for a caller that takes every chunk, eventually reaches a
\* terminal state, and exactly one of Completed, Rejected and Failed; it has
\* then looked the name up once and, unless rejected, invoked the tool once. A
\* terminal state is never left and no chunk is emitted after it: the worker
\* thread's next step is the arrival of another call.
C24_CallToolReachesOneTerminalState ==
    /\ \A t \in Threads :
          (calls[t].rpc = "CallTool" /\ calls[t].pc = "validated")
              ~> (calls[t].rpc = "CallTool" /\ calls[t].handler_ran /\ Terminal(calls[t]))
    /\ [](\A t \in CallToolCalls :
            LET c == calls[t]
            IN  /\ c.lookups = 1
                /\ c.pc = "done" =>
                      /\ Terminal(c)
                      /\ Rejected(c) <=> c.invoked = 0
                      /\ (Completed(c) \/ Failed(c)) <=> c.invoked = 1
                      /\ Rejected(c) => c.chunks = <<>>
                      /\ Failed(c) => c.chunks[Len(c.chunks)].content_block = "text"
                                      /\ Len(c.chunks) = Len(c.produced) + 1
                      /\ Completed(c) => Len(c.chunks) = Len(c.produced))
    /\ [][\A t \in CallToolCalls :
            Terminal(calls[t]) => calls'[t] = calls[t] \/ JustArrived(calls'[t])]_vars

\* a CallTool that failed after two items has ended, with three chunks
C24_Witness ==
    \E t \in CallToolCalls :
        /\ Failed(calls[t])
        /\ Len(calls[t].produced) = 2 /\ Len(calls[t].chunks) = 3

\* what one invocation of a tool function of tests/conftest.py yields
OwnOutput(fn) ==
    IF fn = "tool_text_responder"
    THEN << [type |-> "str", value |-> "Text response 1"],
            [type |-> "str", value |-> "Text response 2"] >>
    ELSE << [type |-> "bytes", value |-> "89504e470d0a1a0a0000"] >>

\* the calls of the two native tools of tests/conftest.py
MockToolCalls ==
    { t \in CallToolCalls : calls[t].tool.fn \in {"tool_text_responder", "tool_bytes_responder"} }

\* C25: concurrent CallTool invocations of native tools are independent. Under
\* every interleaving of two calls on different worker threads, of the same tool
\* or of different tools, each call's chunks are numbered 0..N-1 from its own
\* counter and carry exactly the items of its own invocation of the tool
\* function, wherever the other call stands; no step of one thread changes the
\* other thread's call.
C25_ConcurrentNativeCallsIndependent ==
    /\ [](\A t \in MockToolCalls :
            LET c   == calls[t]
                own == OwnOutput(c.tool.fn)
                n   == Len(c.chunks)
            IN  /\ n <= Len(own) /\ c.fault = None
                /\ c.produced = SubSeq(own, 1, n)
                /\ \A i \in 1..n : /\ c.chunks[i].sequence_id = i - 1
                                   /\ Carries(c.chunks[i], own[i])
                /\ (c.pc = "done" /\ ~c.cancelled) => c.status = "OK" /\ n = Len(own))
    /\ [][\A t, u \in Threads :
            (t # u /\ calls'[t] # calls[t]) => calls'[u] = calls[u]]_vars

\* two calls of the same tool overlap: one has emitted both chunks while the
\* other, started before the first one ended, stands after its first chunk
C25_Witness ==
    /\ calls["w1"].tool.fn = "tool_text_responder" /\ calls["w1"].pc = "yielded"
    /\ Len(calls["w1"].chunks) = 2
    /\ calls["w2"].tool.fn = "tool_text_responder" /\ calls["w2"].pc = "yielded"
    /\ Len(calls["w2"].chunks) = 1


\* the adapters whose transport was opened: stdio_client's __aenter__ returned
OpenedAdapters == { ai \in 1..Len(adapters) : adapters[ai].context \in {"entered", "exited"} }

\* C26, as claimed: every remote backend connection that was opened during
\* startup is closed when the server shuts down (close() ran on it by the time
\* run has ended), also for a backend whose connect() failed after its transport
\* was opened, and also when the wait for termination ends without a keyboard
\* interrupt.
C26_EveryOpenedConnectionClosedAtExit ==
    phase = "exited" => \A ai \in OpenedAdapters : adapters[ai].close_attempts >= 1

\* C27: during Server._cleanup a failure while closing one backend connection
\* does not keep the remaining ones from being closed: close is attempted once
\* on every adapter of mcp_adapters, in registration order (at every moment of
\* the loop the adapters already attempted are the first ones of the list), and
\* _cleanup returns only after the last of them, whatever the closes raised.
C27_CleanupAttemptsEveryCloseOnce ==
    /\ [](phase = "cleanup" =>
            /\ backend_i \in 1..(Len(mcp_adapters) + 1)
            /\ \A k \in 1..Len(mcp_adapters) :
                  adapters[mcp_adapters[k]].close_attempts = IF k < backend_i THEN 1 ELSE 0)
    /\ [](\A ai \in 1..Len(adapters) : adapters[ai].close_attempts <= 1)
    /\ [][(phase = "cleanup" /\ phase' # "cleanup") =>
            /\ phase' = "exited"
            /\ \A k \in 1..Len(mcp_adapters) :
                  adapters'[mcp_adapters[k]].close_attempts = 1]_vars

\* _cleanup has returned after three closes of which the first raised in
\* session.close() and the second in __aexit__; the third was still closed
C27_Witness ==
    /\ phase = "exited" /\ Len(mcp_adapters) = 3
    /\ \A k \in 1..3 : adapters[mcp_adapters[k]].close_attempts = 1
    /\ adapters[mcp_adapters[1]].context = "entered"
    /\ adapters[mcp_adapters[2]].context = "entered"
    /\ adapters[mcp_adapters[3]].context = "exited"

=============================================================================
